---- MODULE Spec2Model ----
(***************************************************************************)
(* A model of the yowl daemon's text tracking.                             *)
(*                                                                         *)
(*   - TextTracker (daemon/src/diff.rs): the two-tier diff tracker, driven *)
(*     the way its unit tests drive it (update / reset on one tracker).    *)
(*   - DaemonState (daemon/src/state.rs): the recording flag, the stored   *)
(*     transcript and poll's own inline copy of the tracker.               *)
(*                                                                         *)
(* A string is a sequence of Unicode scalar values (code points); its byte *)
(* length is that of its UTF-8 encoding, so that byte offsets (str::find)  *)
(* and scalar counts (chars().count()) are different numbers.              *)
(***************************************************************************)
EXTENDS Integers, Sequences, FiniteSets, TLC

VARIABLES
    committed,       \* TextTracker.committed
    provisional,     \* TextTracker.provisional
    result,          \* the value returned by the last TextTracker::update
    last_call,       \* the last call on the tracker: its name, argument and the fields before it
    calls,           \* number of calls made on the tracker so far
    recording,       \* DaemonState.recording
    worker_thread,   \* DaemonState.worker_thread: 0 (None) or the thread whose handle it holds
    committed_text,  \* DaemonState.committed_text
    provisional_text,\* DaemonState.provisional_text
    buffer,          \* StreamingTranscriber.buffer (RollingBuffer.samples)
    last_transcript, \* StreamingTranscriber.last_transcript
    worker,          \* the worker threads spawned so far: where each one is in its closure
    controller,      \* the controller thread: "ready", or "joining" inside stop_recording
    response,        \* the value returned by the last start_recording, stop_recording or poll
    last_command,    \* the last command: its name and what it read
    polls,           \* number of polls made so far
    running,         \* main: the loop has not been left
    parent_alive,    \* the parent process of the daemon still runs
    connection,      \* main's connection: "none" (None) or "open" (Some)
    client,          \* the client's end of the socket: "idle", "connected" or "closed"
    accepted,        \* the listener has handed the client's connection to main
    inbox,           \* the bytes the client has written and the reader has not consumed
    unsent,          \* the rest of a line the client has written in part
    responses,       \* the response lines delivered to the client
    handled,         \* the commands passed to handle_command, with their responses
    last_read,       \* what the last iteration of main read
    lines,           \* number of lines the client has started to write
    written,         \* the lines the client has started to write, in order
    pushed,          \* the samples a caller has pushed into the buffer since its last clear
    last_transcribe, \* the last call a caller made on the transcriber, and what it returned
    transcriber_calls, \* number of calls a caller has made on the transcriber
    capture,         \* the capture of the session: "none", or where the loop that receives from it is
    sample_rate,     \* the sample rate of the input device (config.sample_rate())
    channels,        \* the channels of the input device (config.channels())
    channel,         \* the mpsc channel from the audio callback to the receiver
    produced,        \* number of samples the device has delivered to the callback
    callbacks,       \* number of calls of the audio callback
    last_callback,   \* the last call of the audio callback: the mono samples and what resample made of them
    enqueued,        \* the samples of all frames sent into the channel, in order
    dequeued,        \* the samples of all frames the receiver has taken out, in order
    mark,            \* the length of enqueued when the receiver last called try_recv
    heard            \* the samples the last transcribe copied out of the buffer

tracker_vars == <<committed, provisional, result, last_call, calls>>

daemon_vars == <<recording, worker_thread, committed_text, provisional_text, buffer,
                 last_transcript, worker, controller, response, last_command, polls>>

ipc_vars == <<running, parent_alive, connection, client, accepted, inbox, unsent,
              responses, handled, last_read, lines, written>>

transcriber_vars == <<pushed, last_transcribe, transcriber_calls>>

capture_vars == <<capture, sample_rate, channels, channel, produced, callbacks,
                  last_callback, enqueued, dequeued, mark, heard>>

component_vars == <<transcriber_vars, capture_vars>>

vars == <<tracker_vars, daemon_vars, ipc_vars, component_vars>>

(***************************************************************************)
(* Bounds of the model.                                                    *)
(***************************************************************************)
MaxCalls == 3
MaxPolls == 2
MaxThreads == 2
MaxTranscriberCalls == 3
MaxCallbacks == 2
MaxData == 2
\* RollingBuffer.capacity, scaled down from BUFFER_DURATION_SECS * SAMPLE_RATE.
Capacity == 2

(***************************************************************************)
(* Strings.                                                                *)
(***************************************************************************)
Min(a, b) == IF a <= b THEN a ELSE b

\* Number of bytes of the UTF-8 encoding of one scalar value.
Utf8Len(c) == IF c < 128 THEN 1 ELSE IF c < 2048 THEN 2 ELSE IF c < 65536 THEN 3 ELSE 4

RECURSIVE ByteLen(_)
\* str::len: the length of a string in bytes.
ByteLen(s) == IF s = <<>> THEN 0 ELSE Utf8Len(Head(s)) + ByteLen(Tail(s))

\* chars().take(n)
Take(s, n) == SubSeq(s, 1, Min(n, Len(s)))

\* chars().skip(n)
Skip(s, n) == SubSeq(s, Min(n, Len(s)) + 1, Len(s))

\* str::starts_with
starts_with(s, prefix) == Len(prefix) <= Len(s) /\ SubSeq(s, 1, Len(prefix)) = prefix

\* Whether needle occurs in hay starting at the scalar index i (1-based).
MatchAt(hay, needle, i) ==
    /\ i + Len(needle) - 1 <= Len(hay)
    /\ SubSeq(hay, i, i + Len(needle) - 1) = needle

\* str::find: the byte offset of the first occurrence of needle in hay, if any.
str_find(hay, needle) ==
    LET hits == {i \in 1..(Len(hay) + 1) : MatchAt(hay, needle, i)}
        first == CHOOSE i \in hits : \A j \in hits : i <= j
    IN  IF hits = {} THEN [found |-> FALSE, byte_pos |-> 0]
        ELSE [found |-> TRUE, byte_pos |-> ByteLen(SubSeq(hay, 1, first - 1))]

\* The byte offset taken for a count of scalars.
CharsBefore_bytes(s, byte_pos) == byte_pos

\* s[..byte_pos].chars().count(): the scalars of the byte prefix of s of
\* byte_pos bytes, byte_pos being a character boundary of s.
CharsBefore(s, byte_pos) ==
    CHOOSE n \in 0..Len(s) : ByteLen(SubSeq(s, 1, n)) = byte_pos

RECURSIVE CommonLen_filter(_, _)
\* The count with filter in place of take_while: every position where the
\* two strings agree, not only the leading ones.
CommonLen_filter(a, b) ==
    IF a = <<>> \/ b = <<>> THEN 0
    ELSE (IF Head(a) = Head(b) THEN 1 ELSE 0) + CommonLen_filter(Tail(a), Tail(b))

RECURSIVE CommonLen(_, _)
\* a.chars().zip(b.chars()).take_while(|(a, b)| a == b).count()
CommonLen(a, b) ==
    IF a = <<>> \/ b = <<>> \/ Head(a) # Head(b) THEN 0
    ELSE 1 + CommonLen(Tail(a), Tail(b))

(***************************************************************************)
(* TextTracker (diff.rs).                                                  *)
(***************************************************************************)
min_match_len == 15
max_key_len == 40

\* Option<DiffResult>
None == [some |-> FALSE, backspaces |-> 0, new_text |-> <<>>]
Some(bs, text) == [some |-> TRUE, backspaces |-> bs, new_text |-> text]

RECURSIVE TextTracker_scan_keys(_, _, _)
\* The loop over key_len, from key_len down to min_match_len.
TextTracker_scan_keys(prov, new_transcript, key_len) ==
    IF key_len < min_match_len THEN 0
    ELSE LET search_key == SubSeq(new_transcript, 1, key_len)
             hit == str_find(prov, search_key)
         IN  IF hit.found /\ hit.byte_pos > 0
             THEN CharsBefore(prov, hit.byte_pos)
             ELSE TextTracker_scan_keys(prov, new_transcript, key_len - 1)

\* find_aging_point with the earlier fallback: no key found commits all of
\* provisional.
TextTracker_find_aging_point_commit_all(prov, new_transcript) ==
    IF prov = <<>> \/ new_transcript = <<>> THEN 0
    ELSE IF starts_with(new_transcript, prov) \/ starts_with(prov, new_transcript) THEN 0
    ELSE IF Len(new_transcript) < min_match_len THEN 0
    ELSE LET p == TextTracker_scan_keys(prov, new_transcript,
                                        Min(Len(new_transcript), max_key_len))
         IN  IF p > 0 THEN p ELSE Len(prov)

\* find_aging_point trusting any new transcript, however short, that occurs
\* whole in provisional after its start.
TextTracker_find_aging_point_short(prov, new_transcript) ==
    IF prov = <<>> \/ new_transcript = <<>> THEN 0
    ELSE IF starts_with(new_transcript, prov) \/ starts_with(prov, new_transcript) THEN 0
    ELSE IF Len(new_transcript) < min_match_len
         THEN LET hit == str_find(prov, new_transcript)
              IN  IF hit.found /\ hit.byte_pos > 0 THEN CharsBefore(prov, hit.byte_pos) ELSE 0
    ELSE TextTracker_scan_keys(prov, new_transcript, Min(Len(new_transcript), max_key_len))

TextTracker_find_aging_point(prov, new_transcript) ==
    IF prov = <<>> \/ new_transcript = <<>> THEN 0
    ELSE IF starts_with(new_transcript, prov) \/ starts_with(prov, new_transcript) THEN 0
    ELSE IF Len(new_transcript) < min_match_len THEN 0
    ELSE TextTracker_scan_keys(prov, new_transcript, Min(Len(new_transcript), max_key_len))

\* The aging step of update with the aged head dropped instead of committed.
TextTracker_commit_aged_dropped(committed0, provisional0, aging_point) ==
    IF aging_point > 0
    THEN [committed |-> committed0, provisional |-> Skip(provisional0, aging_point)]
    ELSE [committed |-> committed0, provisional |-> provisional0]

\* The aging step of update with committed assigned instead of appended to.
TextTracker_commit_aged_assigned(committed0, provisional0, aging_point) ==
    IF aging_point > 0
    THEN [committed   |-> Take(provisional0, aging_point),
          provisional |-> Skip(provisional0, aging_point)]
    ELSE [committed |-> committed0, provisional |-> provisional0]

\* The aging step of update with the aged head left in provisional.
TextTracker_commit_aged_kept(committed0, provisional0, aging_point) ==
    IF aging_point > 0
    THEN [committed   |-> committed0 \o Take(provisional0, aging_point),
          provisional |-> provisional0]
    ELSE [committed |-> committed0, provisional |-> provisional0]

\* update, step 1: the scalars before aging_point move from provisional to
\* committed.
TextTracker_commit_aged(committed0, provisional0, aging_point) ==
    IF aging_point > 0
    THEN [committed   |-> committed0 \o Take(provisional0, aging_point),
          provisional |-> Skip(provisional0, aging_point)]
    ELSE [committed |-> committed0, provisional |-> provisional0]

\* The diff of update returned also when there is nothing to do.
TextTracker_diff_always_some(remaining, new_transcript) ==
    LET common_len == CommonLen(remaining, new_transcript)
    IN  Some(Len(remaining) - common_len, Skip(new_transcript, common_len))

\* update, steps 2 and 3: the diff of new_transcript against what is left of
\* provisional, None when there is nothing to do.
TextTracker_diff(remaining, new_transcript) ==
    LET common_len == CommonLen(remaining, new_transcript)
        backspaces == Len(remaining) - common_len
        new_text   == Skip(new_transcript, common_len)
    IN  IF backspaces > 0 \/ new_text # <<>> THEN Some(backspaces, new_text) ELSE None

\* TextTracker::update as a function of the fields before the call: the
\* fields after it and the value returned.
TextTracker_update_result(committed0, provisional0, new_transcript) ==
    IF new_transcript = <<>> /\ provisional0 = <<>>
    THEN [committed |-> committed0, provisional |-> provisional0, result |-> None]
    ELSE LET aging_point == TextTracker_find_aging_point(provisional0, new_transcript)
             aged        == TextTracker_commit_aged(committed0, provisional0, aging_point)
         IN  [committed   |-> aged.committed,
              provisional |-> new_transcript,
              result      |-> TextTracker_diff(aged.provisional, new_transcript)]

\* TextTracker::full_text
full_text == committed \o provisional

(***************************************************************************)
(* RollingBuffer and StreamingTranscriber (whisper.rs).                    *)
(***************************************************************************)
\* push dropping the newest samples over capacity, not the oldest.
RollingBuffer_push_keeps_oldest(samples, new_samples) ==
    LET extended == samples \o new_samples
    IN  IF Len(extended) > Capacity THEN SubSeq(extended, 1, Capacity) ELSE extended

\* RollingBuffer::push: append, then drop the oldest samples over capacity.
RollingBuffer_push(samples, new_samples) ==
    LET extended == samples \o new_samples
        excess   == Len(extended) - Capacity
    IN  IF Len(extended) > Capacity
        THEN SubSeq(extended, excess + 1, Len(extended))
        ELSE extended

\* RollingBuffer::clear
RollingBuffer_clear == <<>>

\* char::is_whitespace
IsWhitespace(c) ==
    \/ c \in {9, 10, 11, 12, 13, 32, 133, 160, 5760, 8232, 8233, 8239, 8287, 12288}
    \/ c \in 8192..8202

RECURSIVE TrimStart(_)
TrimStart(s) == IF s # <<>> /\ IsWhitespace(Head(s)) THEN TrimStart(Tail(s)) ELSE s

RECURSIVE TrimEnd(_)
TrimEnd(s) ==
    IF s # <<>> /\ IsWhitespace(s[Len(s)]) THEN TrimEnd(SubSeq(s, 1, Len(s) - 1)) ELSE s

\* str::trim
Trim(s) == TrimEnd(TrimStart(s))

\* What the recognizer does with the samples of one transcribe: it fails
\* (create_state or full returns an error) or yields the text of its
\* segments.
InferenceFailed == [ok |-> FALSE, text |-> <<>>]
InferenceOk(text) == [ok |-> TRUE, text |-> text]

\* The values transcribe returns, with whether it ran the recognizer.
TranscribeResult(kind, text, invoked, last) ==
    [kind |-> kind, text |-> text, invoked |-> invoked, last_transcript |-> last]

\* transcribe with the test of the empty buffer left out.
StreamingTranscriber_transcribe_unguarded(samples, last, inference) ==
    IF ~inference.ok THEN TranscribeResult("Err", <<>>, TRUE, last)
    ELSE LET transcript == Trim(inference.text)
         IN  IF transcript # last
             THEN TranscribeResult("Some", transcript, TRUE, transcript)
             ELSE TranscribeResult("None", <<>>, TRUE, last)

\* transcribe comparing the recognizer's text as it came with the stored one,
\* and storing the trimmed text only when they differ.
StreamingTranscriber_transcribe_untrimmed(samples, last, inference) ==
    IF samples = <<>> THEN TranscribeResult("None", <<>>, FALSE, last)
    ELSE IF ~inference.ok THEN TranscribeResult("Err", <<>>, TRUE, last)
    ELSE IF inference.text # last
         THEN TranscribeResult("Some", Trim(inference.text), TRUE, Trim(inference.text))
         ELSE TranscribeResult("None", <<>>, TRUE, last)

\* transcribe clearing the stored transcript when the recognizer fails.
StreamingTranscriber_transcribe_forgets(samples, last, inference) ==
    IF samples = <<>> THEN TranscribeResult("None", <<>>, FALSE, last)
    ELSE IF ~inference.ok THEN TranscribeResult("Err", <<>>, TRUE, <<>>)
    ELSE LET transcript == Trim(inference.text)
         IN  IF transcript # last
             THEN TranscribeResult("Some", transcript, TRUE, transcript)
             ELSE TranscribeResult("None", <<>>, TRUE, last)

\* StreamingTranscriber::transcribe on the samples of the buffer and the
\* stored transcript, the recognizer doing what inference says: the value
\* returned (Ok(Some(text)), Ok(None) or Err) and the transcript stored
\* afterwards.
StreamingTranscriber_transcribe(samples, last, inference) ==
    IF samples = <<>> THEN TranscribeResult("None", <<>>, FALSE, last)
    ELSE IF ~inference.ok THEN TranscribeResult("Err", <<>>, TRUE, last)
    ELSE LET transcript == Trim(inference.text)
         IN  IF transcript # last
             THEN TranscribeResult("Some", transcript, TRUE, transcript)
             ELSE TranscribeResult("None", <<>>, TRUE, last)

(***************************************************************************)
(* AudioCapture (audio.rs).  A ratio is kept as the rate of the device it  *)
(* comes from (WHISPER_SAMPLE_RATE / sample_rate), a mono sample as the    *)
(* sum it averages, and a resampled one as the two samples and the         *)
(* fraction it interpolates.                                               *)
(***************************************************************************)
WHISPER_SAMPLE_RATE == 16000

\* ceil(a / b) for a >= 0, b > 0
CeilDiv(a, b) == (a + b - 1) \div b

RECURSIVE Sum(_)
Sum(s) == IF s = <<>> THEN 0 ELSE Head(s) + Sum(Tail(s))

\* The callback's mix to mono: one sample for every chunk of `chans`
\* samples of data, the sum of the chunk over `chans`.
mono(data, chans) ==
    [k \in 1..CeilDiv(Len(data), chans) |->
        [sum |-> Sum(SubSeq(data, (k - 1) * chans + 1, Min(k * chans, Len(data)))),
         over |-> chans]]

\* (ratio - 1.0).abs() < 0.001 for ratio = WHISPER_SAMPLE_RATE / rate
near_one(rate) ==
    (IF WHISPER_SAMPLE_RATE >= rate THEN WHISPER_SAMPLE_RATE - rate
     ELSE rate - WHISPER_SAMPLE_RATE) * 1000 < rate

\* The sample the loop of resample pushes for the index i (0-based).
interpolate(samples, rate, i) ==
    LET idx0 == (i * rate) \div WHISPER_SAMPLE_RATE
        idx1 == Min(idx0 + 1, Len(samples) - 1)
        frac == (i * rate) % WHISPER_SAMPLE_RATE
    IN  IF idx0 < Len(samples)
        THEN [a |-> samples[idx0 + 1], b |-> samples[idx1 + 1], frac |-> frac]
        ELSE [a |-> 0, b |-> 0, frac |-> 0]

\* resample(samples, WHISPER_SAMPLE_RATE / rate)
resample(samples, rate) ==
    IF near_one(rate) THEN samples
    ELSE LET output_len == CeilDiv(Len(samples) * WHISPER_SAMPLE_RATE, rate)
         IN  [i \in 1..output_len |-> interpolate(samples, rate, i - 1)]

(***************************************************************************)
(* DaemonState (state.rs).                                                 *)
(***************************************************************************)
poll_min_key_len == 5
poll_max_key_len == 30

\* The String (or &'static str) a command returns; a RECORDING response
\* carries the backspace count and the appended text.
Response(status, bs, appended) == [status |-> status, bs |-> bs, appended |-> appended]
Reply(status) == Response(status, 0, <<>>)

RECURSIVE DaemonState_scan_keys(_, _, _)
\* The loop over key_len, from key_len down to 5, and what follows it.
DaemonState_scan_keys(prov, new_transcript, key_len) ==
    IF key_len < poll_min_key_len THEN Len(prov)
    ELSE LET search_key == Take(new_transcript, key_len)
             hit == str_find(prov, search_key)
         IN  IF hit.found
             THEN CharsBefore(prov, hit.byte_pos)
             ELSE DaemonState_scan_keys(prov, new_transcript, key_len - 1)

DaemonState_find_aging_point(prov, new_transcript) ==
    IF prov = <<>> \/ new_transcript = <<>> THEN 0
    ELSE IF starts_with(new_transcript, prov) \/ starts_with(prov, new_transcript) THEN 0
    ELSE DaemonState_scan_keys(prov, new_transcript,
                               Min(Len(new_transcript), poll_max_key_len))

\* DaemonState::poll while recording, as a function of the texts before the
\* call and the transcript read: the texts after it and the response.
DaemonState_poll_result(committed0, provisional0, new_transcript) ==
    IF new_transcript = <<>>
    THEN [committed |-> committed0, provisional |-> provisional0,
          response |-> Response("RECORDING", 0, <<>>)]
    ELSE LET aging_point == DaemonState_find_aging_point(provisional0, new_transcript)
             committed1  == IF aging_point > 0
                            THEN committed0 \o Take(provisional0, aging_point)
                            ELSE committed0
             remaining   == IF aging_point > 0 THEN Skip(provisional0, aging_point)
                            ELSE provisional0
             common_len  == CommonLen(remaining, new_transcript)
             backspace_count == Len(remaining) - common_len
             new_chars   == Skip(new_transcript, common_len)
         IN  [committed   |-> committed1,
              provisional |-> new_transcript,
              response    |-> Response("RECORDING", backspace_count, new_chars)]

\* DaemonState::poll without the test of the recording flag.
DaemonState_poll_unchecked(recording0, committed0, provisional0, new_transcript) ==
    DaemonState_poll_result(committed0, provisional0, new_transcript)

\* DaemonState::poll: the texts after the call and the response.
DaemonState_poll(recording0, committed0, provisional0, new_transcript) ==
    IF ~recording0
    THEN [committed |-> committed0, provisional |-> provisional0,
          response |-> Reply("IDLE:")]
    ELSE DaemonState_poll_result(committed0, provisional0, new_transcript)

(***************************************************************************)
(* The control socket (ipc.rs) and the main loop (main.rs).  The socket    *)
(* carries bytes; the lines of the model hold ASCII bytes and the byte     *)
(* 0xFF, so a valid line decodes to the scalars its bytes are.             *)
(***************************************************************************)
MaxLines == 2

\* The literals of handle_command and main.
PING == <<80, 73, 78, 71>>
PONG == <<80, 79, 78, 71>>
START == <<83, 84, 65, 82, 84>>
STOP == <<83, 84, 79, 80>>
OK == <<79, 75>>
SHUTDOWN == <<83, 72, 85, 84, 68, 79, 87, 78>>
\* "ERROR unknown command: "
ERROR_unknown_command ==
    <<69, 82, 82, 79, 82, 32, 117, 110, 107, 110, 111, 119, 110, 32,
      99, 111, 109, 109, 97, 110, 100, 58, 32>>

\* char::to_uppercase on the ASCII range.
char_to_uppercase(c) == IF c \in 97..122 THEN c - 32 ELSE c

\* str::to_uppercase
to_uppercase(s) == [i \in 1..Len(s) |-> char_to_uppercase(s[i])]

\* The index of the first byte b of bytes, 0 when there is none.
IndexOf(bytes, b) ==
    IF \E i \in 1..Len(bytes) : bytes[i] = b
    THEN CHOOSE i \in 1..Len(bytes) :
             bytes[i] = b /\ \A j \in 1..(i - 1) : bytes[j] # b
    ELSE 0

\* cmd.splitn(2, ' ') at index 0: cmd up to its first space.
parts0(cmd) ==
    LET sp == IndexOf(cmd, 32) IN IF sp = 0 THEN cmd ELSE Take(cmd, sp - 1)

\* handle_command
handle_command(cmd) ==
    LET word == to_uppercase(parts0(cmd)) IN
    IF word = PING THEN PONG
    ELSE IF word = START THEN OK
    ELSE IF word = STOP THEN OK
    ELSE ERROR_unknown_command \o parts0(cmd)

\* str::from_utf8 succeeds: no byte from 0xF8 on occurs in UTF-8, and the
\* other bytes of the model's lines are ASCII.
is_utf8(bytes) == \A i \in 1..Len(bytes) : bytes[i] < 128

\* What one read_command does with the bytes the reader can get, the peer
\* having closed (eof) or not: the kind of result, the bytes taken off the
\* stream, the command of an Ok(Some) and the bytes left.
\*   "command"    Ok(Some(cmd))
\*   "eof"        Ok(None)
\*   "wouldblock" Err(WouldBlock): the bytes read into the local line are
\*                dropped with it
\*   "error"      Err(InvalidData)
ReadResult(kind, line, cmd, rest) ==
    [kind |-> kind, line |-> line, cmd |-> cmd, rest |-> rest]

Connection_read_command(bytes, eof) ==
    LET nl   == IndexOf(bytes, 10)
        line == IF nl > 0 THEN Take(bytes, nl) ELSE bytes
        rest == IF nl > 0 THEN Skip(bytes, nl) ELSE <<>>
    IN  IF nl = 0 /\ ~eof THEN ReadResult("wouldblock", line, <<>>, rest)
        ELSE IF line = <<>> THEN ReadResult("eof", line, <<>>, rest)
        ELSE IF ~is_utf8(line) THEN ReadResult("error", line, <<>>, rest)
        ELSE ReadResult("command", line, Trim(line), rest)

\* The lines the client writes: "START", "stop", "POLL", "PING" with a
\* carriage return, "Shutdown", "FOO bar" and a line that is not UTF-8.
ClientLines ==
    { <<83, 84, 65, 82, 84, 10>>,
      <<115, 116, 111, 112, 10>>,
      <<80, 79, 76, 76, 10>>,
      <<80, 73, 78, 71, 13, 10>>,
      <<83, 104, 117, 116, 100, 111, 119, 110, 10>>,
      <<70, 79, 79, 32, 98, 97, 114, 10>>,
      <<255, 10>> }

\* Where the client may cut a line it writes in two parts.
Cuts(l) == {k \in 1..(Len(l) - 1) : k \in {2, Len(l) - 1}}

NoRead == [kind |-> "none", line |-> <<>>, cmd |-> <<>>, response |-> <<>>,
           delivered |-> FALSE]

(***************************************************************************)
(* The transcripts the tracker is fed: windows of a spoken text sliding    *)
(* forward (aging), growing (append), re-heard (revision), and a chant     *)
(* whose start repeats further on.                                         *)
(***************************************************************************)
\* "Thé three billy goats gruff. Once upon a time there"
Story ==
    <<84, 104, 233, 32, 116, 104, 114, 101, 101, 32, 98, 105, 108, 108, 121, 32,
      103, 111, 97, 116, 115, 32, 103, 114, 117, 102, 102, 46, 32, 79, 110, 99,
      101, 32, 117, 112, 111, 110, 32, 97, 32, 116, 105, 109, 101, 32, 116, 104,
      101, 114, 101>>

StoryWindows ==
    { <<1, 9>>,     \* "Thé three"
      <<1, 15>>,    \* "Thé three billy"
      <<5, 15>>,    \* "three billy"
      <<1, 28>>,    \* "Thé three billy goats gruff."
      <<5, 33>>,    \* "three billy goats gruff. Once"
      <<11, 38>>,   \* "billy goats gruff. Once upon"
      <<1, 45>>,    \* "Thé three billy goats gruff. Once upon a time"
      <<5, 51>>,    \* "three billy goats gruff. Once upon a time there"
      <<30, 51>> }  \* "Once upon a time there"

Revisions ==
    { \* "Thé tree"
      <<84, 104, 233, 32, 116, 114, 101, 101>>,
      \* "Thé Three Billy Goats Gruff."
      <<84, 104, 233, 32, 84, 104, 114, 101, 101, 32, 66, 105, 108, 108, 121, 32,
        71, 111, 97, 116, 115, 32, 71, 114, 117, 102, 102, 46>> }

Chants ==
    { \* "no no no no no no no"
      <<110, 111, 32, 110, 111, 32, 110, 111, 32, 110, 111, 32, 110, 111, 32,
        110, 111, 32, 110, 111>>,
      \* "no no no no no now"
      <<110, 111, 32, 110, 111, 32, 110, 111, 32, 110, 111, 32, 110, 111, 32,
        110, 111, 119>> }

Transcripts ==
    {<<>>} \cup {SubSeq(Story, w[1], w[2]) : w \in StoryWindows} \cup Revisions \cup Chants

\* What the recognizer returns for the buffered audio, before it is trimmed:
\* a transcript, bare or after a leading space.
RecognizerTexts ==
    {<<>>} \cup {SubSeq(Story, w[1], w[2]) : w \in {<<1, 9>>, <<1, 28>>, <<5, 33>>}}
           \cup Revisions
RecognizerOutputs == RecognizerTexts \cup {<<32>> \o s : s \in RecognizerTexts}

\* The capture frames the worker receives.
Frames == {<<1>>, <<2, 3>>}

\* Recognizer results with a newline inside the text: "Thé\ntree", and
\* "Thé three" as the revision of it.
LineInferences ==
    {InferenceFailed,
     InferenceOk(<<84, 104, 233, 10, 116, 114, 101, 101>>),
     InferenceOk(<<32, 84, 104, 233, 32, 116, 104, 114, 101, 101>>)}

\* The input devices: their sample rate and channels.
Devices == {<<16000, 1>>, <<48000, 2>>, <<8000, 1>>, <<15990, 1>>}

NoCallback == [called |-> FALSE, mono |-> <<>>, resampled |-> <<>>]

\* What the recognizer may do on one transcribe.
Inferences == {InferenceFailed} \cup {InferenceOk(raw) : raw \in RecognizerOutputs}

\* The chunks a caller pushes: empty, shorter than the capacity, and longer.
Chunks == {<<>>, <<1>>, <<2, 3>>, [i \in 1..(Capacity + 1) |-> 3 + i]}

NoTranscribe == [op |-> "new", samples |-> <<>>, last |-> <<>>,
                 inference |-> InferenceFailed,
                 result |-> TranscribeResult("None", <<>>, FALSE, <<>>)]

\* A call on the transcriber: the buffer and the stored transcript it finds,
\* what the recognizer does, and what is returned.
TranscriberCall(op, inference, returned) ==
    [op |-> op, samples |-> buffer, last |-> last_transcript,
     inference |-> inference, result |-> returned]

(***************************************************************************)
(* The tracker driven by a caller.                                         *)
(***************************************************************************)
NoCall == [op |-> "new", new_transcript |-> <<>>, committed |-> <<>>, provisional |-> <<>>]

NoCommand == [op |-> "new", recording |-> FALSE, snapshot |-> <<>>,
              committed |-> <<>>, provisional |-> <<>>]

\* TextTracker::new, and DaemonState::new with StreamingTranscriber::new.
Init ==
    /\ committed = <<>>
    /\ provisional = <<>>
    /\ result = None
    /\ last_call = NoCall
    /\ calls = 0
    /\ recording = FALSE
    /\ worker_thread = 0
    /\ committed_text = <<>>
    /\ provisional_text = <<>>
    /\ buffer = <<>>
    /\ last_transcript = <<>>
    /\ worker = <<>>
    /\ controller = "ready"
    /\ response = Reply("")
    /\ last_command = NoCommand
    /\ polls = 0
    /\ running = TRUE
    /\ parent_alive = TRUE
    /\ connection = "none"
    /\ client = "idle"
    /\ accepted = FALSE
    /\ inbox = <<>>
    /\ unsent = <<>>
    /\ responses = <<>>
    /\ handled = <<>>
    /\ last_read = NoRead
    /\ lines = 0
    /\ written = <<>>
    /\ pushed = <<>>
    /\ last_transcribe = NoTranscribe
    /\ transcriber_calls = 0
    /\ capture = "none"
    /\ sample_rate = 0
    /\ channels = 0
    /\ channel = <<>>
    /\ produced = 0
    /\ callbacks = 0
    /\ last_callback = NoCallback
    /\ enqueued = <<>>
    /\ dequeued = <<>>
    /\ mark = 0
    /\ heard = <<>>

update(new_transcript) ==
    LET r == TextTracker_update_result(committed, provisional, new_transcript) IN
    /\ calls < MaxCalls
    /\ committed' = r.committed
    /\ provisional' = r.provisional
    /\ result' = r.result
    /\ last_call' = [op |-> "update", new_transcript |-> new_transcript,
                     committed |-> committed, provisional |-> provisional]
    /\ calls' = calls + 1
    /\ UNCHANGED <<daemon_vars, ipc_vars, component_vars>>

reset ==
    /\ calls < MaxCalls
    /\ committed' = <<>>
    /\ provisional' = <<>>
    /\ last_call' = [op |-> "reset", new_transcript |-> <<>>,
                     committed |-> committed, provisional |-> provisional]
    /\ calls' = calls + 1
    /\ UNCHANGED result
    /\ UNCHANGED <<daemon_vars, ipc_vars, component_vars>>

TrackerNext ==
    \/ \E new_transcript \in Transcripts : update(new_transcript)
    \/ reset

TrackerSpec == Init /\ [][TrackerNext]_vars

(***************************************************************************)
(* The daemon: the controller thread calling start_recording,              *)
(* stop_recording and poll, and the worker threads start_recording spawns. *)
(***************************************************************************)
Command(op) ==
    [op |-> op, recording |-> recording, snapshot |-> last_transcript,
     committed |-> committed_text, provisional |-> provisional_text]

\* The worker whose position is pc moves to next.
WorkerAt(w, pc) == w \in DOMAIN worker /\ worker[w] = pc
WorkerGoes(w, next) == worker' = [worker EXCEPT ![w] = next]
\* The closure of worker w has returned: after an error of the capture
\* ("failed") or at its end ("exited").
Terminated(w) == w \in DOMAIN worker /\ worker[w] \in {"failed", "exited"}

\* start_recording with a store of the flag in place of the swap and its
\* test.
start_recording_unchecked ==
    /\ controller = "ready"
    /\ last_command' = Command("start")
    /\ Len(worker) < MaxThreads
    /\ recording' = TRUE
    /\ buffer' = <<>>
    /\ last_transcript' = <<>>
    /\ committed_text' = <<>>
    /\ provisional_text' = <<>>
    /\ worker' = Append(worker, "spawned")
    /\ worker_thread' = Len(worker) + 1
    /\ response' = Reply("OK")
    /\ UNCHANGED <<controller, polls, tracker_vars, ipc_vars, component_vars>>

\* start_recording without the reset of the transcriber and the tracker.
start_recording_no_reset ==
    /\ controller = "ready"
    /\ last_command' = Command("start")
    /\ IF recording
       THEN /\ response' = Reply("ERROR already recording")
            /\ UNCHANGED <<recording, worker_thread, worker>>
       ELSE /\ Len(worker) < MaxThreads
            /\ recording' = TRUE
            /\ worker' = Append(worker, "spawned")
            /\ worker_thread' = Len(worker) + 1
            /\ response' = Reply("OK")
    /\ UNCHANGED <<committed_text, provisional_text, buffer, last_transcript,
                   controller, polls, tracker_vars, ipc_vars, component_vars>>

start_recording ==
    /\ controller = "ready"
    /\ last_command' = Command("start")
    /\ IF recording
       THEN /\ response' = Reply("ERROR already recording")
            /\ UNCHANGED <<recording, worker_thread, committed_text, provisional_text,
                           buffer, last_transcript, worker>>
       ELSE /\ Len(worker) < MaxThreads
            /\ recording' = TRUE
            /\ buffer' = <<>>
            /\ last_transcript' = <<>>
            /\ committed_text' = <<>>
            /\ provisional_text' = <<>>
            /\ worker' = Append(worker, "spawned")
            /\ worker_thread' = Len(worker) + 1
            /\ response' = Reply("OK")
    /\ UNCHANGED <<controller, polls, tracker_vars, ipc_vars, component_vars>>

\* stop_recording up to the join: the swap of the flag and the take of the
\* handle.
stop_recording ==
    /\ controller = "ready"
    /\ last_command' = Command("stop")
    /\ IF ~recording
       THEN /\ response' = Reply("ERROR not recording")
            /\ UNCHANGED <<recording, controller>>
       ELSE /\ recording' = FALSE
            /\ IF worker_thread # 0
               THEN controller' = "joining" /\ UNCHANGED response
               ELSE response' = Reply("OK") /\ UNCHANGED controller
    /\ UNCHANGED <<worker_thread, committed_text, provisional_text, buffer,
                   last_transcript, worker, polls, tracker_vars, ipc_vars, component_vars>>

\* stop_recording returning without the join.
stop_recording_not_joined ==
    /\ controller = "joining"
    /\ worker_thread' = 0
    /\ controller' = "ready"
    /\ response' = Reply("OK")
    /\ UNCHANGED <<recording, committed_text, provisional_text, buffer, last_transcript,
                   worker, last_command, polls, tracker_vars, ipc_vars, component_vars>>

\* stop_recording from the join on: it returns once the worker has finished.
stop_recording_joined ==
    /\ controller = "joining"
    /\ Terminated(worker_thread)
    /\ worker_thread' = 0
    /\ controller' = "ready"
    /\ response' = Reply("OK")
    /\ UNCHANGED <<recording, committed_text, provisional_text, buffer, last_transcript,
                   worker, last_command, polls, tracker_vars, ipc_vars, component_vars>>

poll ==
    /\ controller = "ready"
    /\ polls < MaxPolls
    /\ polls' = polls + 1
    /\ last_command' = Command("poll")
    /\ LET r == DaemonState_poll(recording, committed_text, provisional_text,
                                 last_transcript)
       IN  /\ committed_text' = r.committed
           /\ provisional_text' = r.provisional
           /\ response' = r.response
    /\ UNCHANGED <<recording, worker_thread, buffer, last_transcript, worker,
                   controller, tracker_vars, ipc_vars, component_vars>>

\* The worker returning on a failed AudioCapture::new with the flag left set.
worker_capture_new_keeps_flag(w) ==
    /\ WorkerAt(w, "spawned")
    /\ \/ WorkerGoes(w, "created")
       \/ WorkerGoes(w, "failed")
    /\ UNCHANGED <<recording, worker_thread, committed_text, provisional_text, buffer,
                   last_transcript, controller, response, last_command, polls,
                   tracker_vars, ipc_vars, component_vars>>

\* The worker creates the capture (AudioCapture::new).
worker_capture_new(w) ==
    /\ WorkerAt(w, "spawned")
    /\ \/ WorkerGoes(w, "created") /\ UNCHANGED recording
       \/ WorkerGoes(w, "failed") /\ recording' = FALSE
    /\ UNCHANGED <<worker_thread, committed_text, provisional_text, buffer,
                   last_transcript, controller, response, last_command, polls,
                   tracker_vars, ipc_vars, component_vars>>

\* The worker starts the capture (capture.start).
worker_capture_start(w) ==
    /\ WorkerAt(w, "created")
    /\ \/ WorkerGoes(w, "loop") /\ UNCHANGED recording
       \/ WorkerGoes(w, "failed") /\ recording' = FALSE
    /\ UNCHANGED <<worker_thread, committed_text, provisional_text, buffer,
                   last_transcript, controller, response, last_command, polls,
                   tracker_vars, ipc_vars, component_vars>>

\* while state.recording.load(..)
worker_loop(w) ==
    /\ WorkerAt(w, "loop")
    /\ WorkerGoes(w, IF recording THEN "drain" ELSE "stopping")
    /\ UNCHANGED <<recording, worker_thread, committed_text, provisional_text, buffer,
                   last_transcript, controller, response, last_command, polls,
                   tracker_vars, ipc_vars, component_vars>>

\* while let Some(samples) = capture.try_recv() { push_audio(&samples) }
worker_drain(w) ==
    /\ WorkerAt(w, "drain")
    /\ \/ \E samples \in Frames :
            /\ buffer' = RollingBuffer_push(buffer, samples)
            /\ UNCHANGED worker
       \/ WorkerGoes(w, "tick") /\ UNCHANGED buffer
    /\ UNCHANGED <<recording, worker_thread, committed_text, provisional_text,
                   last_transcript, controller, response, last_command, polls,
                   tracker_vars, ipc_vars, component_vars>>

\* The rest of the loop body: transcribe() when the interval has elapsed,
\* then the sleep.
worker_tick(w) ==
    /\ WorkerAt(w, "tick")
    /\ WorkerGoes(w, "loop")
    /\ \/ UNCHANGED last_transcript                   \* interval not elapsed
       \/ \E inference \in Inferences :
             last_transcript' = StreamingTranscriber_transcribe(
                                    buffer, last_transcript, inference).last_transcript
    /\ UNCHANGED <<recording, worker_thread, committed_text, provisional_text, buffer,
                   controller, response, last_command, polls, tracker_vars, ipc_vars, component_vars>>

\* The same on speech the recognizer breaks into lines, with the call of
\* transcribe and what it returned to the worker kept in last_transcribe.
worker_tick_lines(w) ==
    /\ WorkerAt(w, "tick")
    /\ WorkerGoes(w, "loop")
    /\ \/ UNCHANGED <<last_transcript, last_transcribe>>   \* interval not elapsed
       \/ \E inference \in LineInferences :
             LET r == StreamingTranscriber_transcribe(buffer, last_transcript, inference)
             IN  /\ last_transcript' = r.last_transcript
                 /\ last_transcribe' = TranscriberCall("transcribe", inference, r)
    /\ UNCHANGED <<recording, worker_thread, committed_text, provisional_text, buffer,
                   controller, response, last_command, polls, pushed, transcriber_calls,
                   tracker_vars, ipc_vars, capture_vars>>

\* capture.stop() and the end of the closure.
worker_exit(w) ==
    /\ WorkerAt(w, "stopping")
    /\ WorkerGoes(w, "exited")
    /\ UNCHANGED <<recording, worker_thread, committed_text, provisional_text, buffer,
                   last_transcript, controller, response, last_command, polls,
                   tracker_vars, ipc_vars, component_vars>>

DaemonNext ==
    \/ start_recording
    \/ stop_recording
    \/ stop_recording_joined
    \/ poll
    \/ \E w \in 1..MaxThreads :
          \/ worker_capture_new(w)
          \/ worker_capture_start(w)
          \/ worker_loop(w)
          \/ worker_drain(w)
          \/ worker_tick(w)
          \/ worker_exit(w)

DaemonSpec == Init /\ [][DaemonNext]_vars

\* A step of the thread of worker w.
WorkerStep(w) ==
    \/ worker_capture_new(w)
    \/ worker_capture_start(w)
    \/ worker_loop(w)
    \/ worker_drain(w)
    \/ worker_tick(w)
    \/ worker_exit(w)

\* The daemon with threads that are scheduled: a worker that can take a
\* step takes one (every call it makes returns: AudioCapture::new, start,
\* try_recv, transcribe, the sleep, stop), and the controller returns from
\* the join once the worker has finished.
DaemonFairSpec ==
    /\ DaemonSpec
    /\ \A w \in 1..MaxThreads : WF_vars(WorkerStep(w))
    /\ WF_vars(stop_recording_joined)

\* The daemon with a recognizer that also returns text of more than one
\* line, and with the worker's calls of transcribe kept.
LinesNext ==
    \/ start_recording
    \/ stop_recording
    \/ stop_recording_joined
    \/ poll
    \/ \E w \in 1..MaxThreads :
          \/ worker_capture_new(w)
          \/ worker_capture_start(w)
          \/ worker_loop(w)
          \/ worker_drain(w)
          \/ worker_tick_lines(w)
          \/ worker_exit(w)

LinesSpec == Init /\ [][LinesNext]_vars

\* The client connects to the socket.
client_connect ==
    /\ client = "idle"
    /\ client' = "connected"
    /\ UNCHANGED <<running, parent_alive, connection, accepted, inbox, unsent,
                   responses, handled, last_read, lines, written,
                   tracker_vars, daemon_vars, component_vars>>

\* The client writes a line in one piece.
client_send(l) ==
    /\ client = "connected"
    /\ unsent = <<>>
    /\ lines < MaxLines
    /\ lines' = lines + 1
    /\ written' = Append(written, l)
    /\ inbox' = inbox \o l
    /\ UNCHANGED <<running, parent_alive, connection, client, accepted, unsent,
                   responses, handled, last_read, tracker_vars, daemon_vars, component_vars>>

\* The client writes the first k bytes of a line.
client_send_part(l, k) ==
    /\ client = "connected"
    /\ unsent = <<>>
    /\ lines < MaxLines
    /\ lines' = lines + 1
    /\ written' = Append(written, l)
    /\ inbox' = inbox \o Take(l, k)
    /\ unsent' = Skip(l, k)
    /\ UNCHANGED <<running, parent_alive, connection, client, accepted,
                   responses, handled, last_read, tracker_vars, daemon_vars, component_vars>>

\* The client writes the rest of the line.
client_send_rest ==
    /\ client = "connected"
    /\ unsent # <<>>
    /\ inbox' = inbox \o unsent
    /\ unsent' = <<>>
    /\ UNCHANGED <<running, parent_alive, connection, client, accepted,
                   responses, handled, last_read, lines, written,
                   tracker_vars, daemon_vars, component_vars>>

\* The client closes its end.
client_close ==
    /\ client = "connected"
    /\ client' = "closed"
    /\ UNCHANGED <<running, parent_alive, connection, accepted, inbox, unsent,
                   responses, handled, last_read, lines, written,
                   tracker_vars, daemon_vars, component_vars>>

\* The parent process exits.
parent_exit ==
    /\ parent_alive
    /\ parent_alive' = FALSE
    /\ UNCHANGED <<running, connection, client, accepted, inbox, unsent,
                   responses, handled, last_read, lines, written,
                   tracker_vars, daemon_vars, component_vars>>

\* One iteration of the loop of main: the check of the parent, the accept,
\* the read of a command, its handling and the send of the response.
main_loop ==
    /\ running
    /\ IF ~parent_alive
       THEN /\ running' = FALSE
            /\ UNCHANGED <<connection, accepted, inbox, responses, handled, last_read>>
       ELSE LET accept == client # "idle" /\ ~accepted
                conn   == IF accept THEN "open" ELSE connection
                r      == Connection_read_command(inbox, client = "closed")
                sent   == client # "closed"
                answer == handle_command(r.cmd)
            IN  /\ accepted' = (accepted \/ accept)
                /\ IF conn = "none"
                   THEN /\ connection' = "none"
                        /\ last_read' = NoRead
                        /\ UNCHANGED <<running, inbox, responses, handled>>
                   ELSE /\ inbox' = r.rest
                        /\ last_read' = [kind |-> r.kind, line |-> r.line, cmd |-> r.cmd,
                                         response |-> IF r.kind = "command"
                                                      THEN answer ELSE <<>>,
                                         delivered |-> r.kind = "command" /\ sent]
                        /\ IF r.kind = "command"
                           THEN /\ responses' = IF sent THEN Append(responses, answer)
                                                ELSE responses
                                /\ connection' = IF sent THEN "open" ELSE "none"
                                /\ handled' = Append(handled,
                                                     [cmd |-> r.cmd, response |-> answer,
                                                      delivered |-> sent])
                                /\ running' = (to_uppercase(r.cmd) # SHUTDOWN)
                           ELSE /\ connection' = IF r.kind = "wouldblock"
                                                THEN "open" ELSE "none"
                                /\ UNCHANGED <<running, responses, handled>>
    /\ UNCHANGED <<parent_alive, client, unsent, lines, written,
                   tracker_vars, daemon_vars, component_vars>>

IpcNext ==
    \/ client_connect
    \/ \E l \in ClientLines : client_send(l)
    \/ \E l \in ClientLines : \E k \in Cuts(l) : client_send_part(l, k)
    \/ client_send_rest
    \/ client_close
    \/ parent_exit
    \/ main_loop

IpcSpec == Init /\ [][IpcNext]_vars

(***************************************************************************)
(* The transcriber driven by a caller: push_audio, transcribe and reset in *)
(* any order.                                                              *)
(***************************************************************************)
push_audio(samples) ==
    /\ transcriber_calls < MaxTranscriberCalls
    /\ transcriber_calls' = transcriber_calls + 1
    /\ buffer' = RollingBuffer_push(buffer, samples)
    /\ pushed' = pushed \o samples
    /\ last_transcribe' = TranscriberCall("push_audio", InferenceFailed,
                                          TranscribeResult("None", <<>>, FALSE,
                                                           last_transcript))
    /\ UNCHANGED <<last_transcript, recording, worker_thread, committed_text,
                   provisional_text, worker, controller, response, last_command, polls,
                   tracker_vars, ipc_vars, capture_vars>>

transcribe(inference) ==
    LET r == StreamingTranscriber_transcribe(buffer, last_transcript, inference) IN
    /\ transcriber_calls < MaxTranscriberCalls
    /\ transcriber_calls' = transcriber_calls + 1
    /\ last_transcript' = r.last_transcript
    /\ last_transcribe' = TranscriberCall("transcribe", inference, r)
    /\ UNCHANGED <<buffer, pushed, recording, worker_thread, committed_text,
                   provisional_text, worker, controller, response, last_command, polls,
                   tracker_vars, ipc_vars, capture_vars>>

StreamingTranscriber_reset ==
    /\ transcriber_calls < MaxTranscriberCalls
    /\ transcriber_calls' = transcriber_calls + 1
    /\ buffer' = RollingBuffer_clear
    /\ pushed' = <<>>
    /\ last_transcript' = <<>>
    /\ last_transcribe' = TranscriberCall("reset", InferenceFailed,
                                          TranscribeResult("None", <<>>, FALSE, <<>>))
    /\ UNCHANGED <<recording, worker_thread, committed_text, provisional_text, worker,
                   controller, response, last_command, polls, tracker_vars, ipc_vars,
                   capture_vars>>

TranscriberNext ==
    \/ \E samples \in Chunks : push_audio(samples)
    \/ \E inference \in Inferences : transcribe(inference)
    \/ StreamingTranscriber_reset

TranscriberSpec == Init /\ [][TranscriberNext]_vars

(***************************************************************************)
(* One session's audio path: the callback of the capture sends frames into *)
(* the channel, and the loop of the worker drains them into the rolling    *)
(* buffer and transcribes.                                                 *)
(***************************************************************************)
\* AudioCapture::new and start, on a device.
AudioCapture_new(device) ==
    /\ capture = "none"
    /\ capture' = "loop"
    /\ sample_rate' = device[1]
    /\ channels' = device[2]
    /\ channel' = <<>>
    /\ UNCHANGED <<produced, callbacks, last_callback, enqueued, dequeued, mark, heard,
                   tracker_vars, daemon_vars, ipc_vars, transcriber_vars>>

\* The audio callback on n samples of the device: the mix to mono, the
\* resampling and the send.
build_stream_callback(n) ==
    LET data      == [i \in 1..n |-> produced + i]
        mixed     == mono(data, channels)
        resampled == resample(mixed, sample_rate)
    IN  /\ capture # "none"
        /\ callbacks < MaxCallbacks
        /\ callbacks' = callbacks + 1
        /\ produced' = produced + n
        /\ channel' = Append(channel, resampled)
        /\ enqueued' = enqueued \o resampled
        /\ last_callback' = [called |-> TRUE, mono |-> mixed, resampled |-> resampled]
        /\ UNCHANGED <<capture, sample_rate, channels, dequeued, mark, heard,
                       tracker_vars, daemon_vars, ipc_vars, transcriber_vars>>

\* The head of the worker's loop, before the drain.
capture_loop ==
    /\ capture = "loop"
    /\ capture' = "drain"
    /\ UNCHANGED <<sample_rate, channels, channel, produced, callbacks, last_callback,
                   enqueued, dequeued, mark, heard,
                   tracker_vars, daemon_vars, ipc_vars, transcriber_vars>>

\* try_recv that leaves the frame it returns in the channel.
capture_try_recv_peeks ==
    /\ capture = "drain"
    /\ mark' = Len(enqueued)
    /\ IF channel # <<>>
       THEN /\ buffer' = RollingBuffer_push(buffer, Head(channel))
            /\ dequeued' = dequeued \o Head(channel)
            /\ UNCHANGED <<capture, channel>>
       ELSE /\ capture' = "tick"
            /\ UNCHANGED <<buffer, channel, dequeued>>
    /\ UNCHANGED <<sample_rate, channels, produced, callbacks, last_callback, enqueued,
                   heard, last_transcript,
                   recording, worker_thread, committed_text, provisional_text, worker,
                   controller, response, last_command, polls,
                   tracker_vars, ipc_vars, transcriber_vars>>

\* One try_recv of the drain: a frame pushed into the buffer, or None.
capture_try_recv ==
    /\ capture = "drain"
    /\ mark' = Len(enqueued)
    /\ IF channel # <<>>
       THEN /\ buffer' = RollingBuffer_push(buffer, Head(channel))
            /\ channel' = Tail(channel)
            /\ dequeued' = dequeued \o Head(channel)
            /\ UNCHANGED capture
       ELSE /\ capture' = "tick"
            /\ UNCHANGED <<buffer, channel, dequeued>>
    /\ UNCHANGED <<sample_rate, channels, produced, callbacks, last_callback, enqueued,
                   heard, last_transcript,
                   recording, worker_thread, committed_text, provisional_text, worker,
                   controller, response, last_command, polls,
                   tracker_vars, ipc_vars, transcriber_vars>>

\* The rest of the loop body: transcribe() when the interval has elapsed.
capture_transcribe ==
    /\ capture = "tick"
    /\ capture' = "loop"
    /\ \/ UNCHANGED <<last_transcript, heard>>
       \/ \E inference \in Inferences :
             /\ heard' = buffer
             /\ last_transcript' = StreamingTranscriber_transcribe(
                                       buffer, last_transcript, inference).last_transcript
    /\ UNCHANGED <<sample_rate, channels, channel, produced, callbacks, last_callback,
                   enqueued, dequeued, mark, buffer,
                   recording, worker_thread, committed_text, provisional_text, worker,
                   controller, response, last_command, polls,
                   tracker_vars, ipc_vars, transcriber_vars>>

CaptureNext ==
    \/ \E device \in Devices : AudioCapture_new(device)
    \/ \E n \in 0..MaxData : build_stream_callback(n)
    \/ capture_loop
    \/ capture_try_recv
    \/ capture_transcribe

CaptureSpec == Init /\ [][CaptureNext]_vars

(***************************************************************************)
(* What the properties below are stated with: scalar offsets and prefixes, *)
(* written without the tracker's own helpers.                              *)
(***************************************************************************)
IsPrefix(p, s) == Len(p) <= Len(s) /\ \A i \in 1..Len(p) : p[i] = s[i]

\* The longest common prefix of a and b, in scalars.
Lcp(a, b) ==
    CHOOSE n \in 0..Min(Len(a), Len(b)) :
        /\ \A i \in 1..n : a[i] = b[i]
        /\ n < Min(Len(a), Len(b)) => a[n + 1] # b[n + 1]

\* key occurs in hay at the scalar offset p (0-based).
OccursAt(hay, key, p) ==
    /\ p + Len(key) <= Len(hay)
    /\ \A i \in 1..Len(key) : hay[p + i] = key[i]

\* What a client shows after an edit: r.backspaces trailing scalars deleted
\* from text, then r.new_text appended.
ApplyEdit(text, r) ==
    SubSeq(text, 1, IF r.backspaces >= Len(text) THEN 0 ELSE Len(text) - r.backspaces)
        \o r.new_text

\* The key lengths rule d tries for new.
KeyLens(new) == min_match_len..Min(max_key_len, Len(new))

\* The key lengths whose key occurs in prov at some offset greater than 0.
AgedKeyLens(prov, new) ==
    {k \in KeyLens(new) : \E p \in 1..Len(prov) : OccursAt(prov, SubSeq(new, 1, k), p)}

Updated == last_call.op = "update"
committed_before == last_call.committed
provisional_before == last_call.provisional
new_arg == last_call.new_transcript
\* The scalars the last update moved from provisional into committed.
Aged == Len(committed) - Len(committed_before)

\* C1: for every update call, deleting `backspaces` trailing scalars from the
\* full_text held before the call and appending `new_text` yields the
\* full_text held after it (None: full_text unchanged).
C1_EditYieldsFullText ==
    Updated => ApplyEdit(committed_before \o provisional_before, result) = full_text

C1_Witness ==
    /\ Updated
    /\ result.some /\ result.backspaces > 0 /\ result.new_text # <<>>
    /\ committed_before # <<>>

\* C2: across update calls, committed before a call is a prefix of committed
\* after it.
C2_CommittedOnlyExtended ==
    Updated => IsPrefix(committed_before, committed)

C2_Witness ==
    /\ Updated
    /\ committed_before # <<>>
    /\ Len(committed) > Len(committed_before)

\* C3: the backspaces an update returns are at most the scalars of provisional
\* that remain after the aging step of the same call: the edit never deletes
\* a scalar of committed.
C3_NeverRetractsCommitted ==
    Updated =>
        /\ result.backspaces <= Len(provisional_before) - Aged
        /\ Len(committed_before \o provisional_before) - result.backspaces >= Len(committed)

C3_Witness ==
    /\ Updated
    /\ Aged > 0
    /\ result.backspaces > 0

\* C4: rule d. When neither string is empty, neither is a prefix of the other
\* and new has at least 15 scalars: if for some k in 15..min(40,|new|) the key
\* new[..k] occurs in provisional at an offset p > 0, the aging point is such a
\* p for the largest such k (and so is not 0), also when the key occurs at
\* offset 0 as well.
C4_RuleD ==
    (/\ Updated
     /\ provisional_before # <<>> /\ new_arg # <<>>
     /\ ~IsPrefix(provisional_before, new_arg) /\ ~IsPrefix(new_arg, provisional_before)
     /\ Len(new_arg) >= min_match_len
     /\ AgedKeyLens(provisional_before, new_arg) # {})
    => LET ks == AgedKeyLens(provisional_before, new_arg)
           k  == CHOOSE x \in ks : \A y \in ks : y <= x
       IN  /\ Aged > 0
           /\ OccursAt(provisional_before, SubSeq(new_arg, 1, k), Aged)

\* C5: when update detects aging at p > 0, afterwards
\* committed = old committed ++ old provisional[..p] and
\* full_text = old committed ++ old provisional[..p] ++ new.
C5_AgingCommitsHead ==
    LET p == TextTracker_find_aging_point(provisional_before, new_arg) IN
    (Updated /\ p > 0) =>
        /\ committed = committed_before \o SubSeq(provisional_before, 1, p)
        /\ full_text = committed_before \o SubSeq(provisional_before, 1, p) \o new_arg

C5_Witness ==
    /\ Updated
    /\ TextTracker_find_aging_point(provisional_before, new_arg) > 0
    /\ committed_before # <<>>
    /\ result.some

\* C6: when no key new[..k], k in 15..min(40,|new|), occurs in provisional at
\* a positive offset, update is a revision: committed is unchanged, the old
\* provisional beyond the common prefix is backspaced, full_text =
\* committed ++ new.
C6_RefreshIsRevision ==
    (Updated /\ AgedKeyLens(provisional_before, new_arg) = {}) =>
        /\ committed = committed_before
        /\ result.backspaces = Len(provisional_before) - Lcp(provisional_before, new_arg)
        /\ full_text = committed \o new_arg

C6_Witness ==
    /\ Updated
    /\ AgedKeyLens(provisional_before, new_arg) = {}
    /\ Len(new_arg) >= min_match_len
    /\ Len(provisional_before) >= min_match_len
    /\ Lcp(provisional_before, new_arg) = 0
    /\ result.backspaces = Len(provisional_before)

\* C7: update commits nothing when provisional or new is empty, when one is a
\* prefix of the other, or when new has fewer than 15 scalars; the result is
\* the plain common-prefix diff.
C7_NoCommitCases ==
    (/\ Updated
     /\ \/ provisional_before = <<>>
        \/ new_arg = <<>>
        \/ IsPrefix(new_arg, provisional_before)
        \/ IsPrefix(provisional_before, new_arg)
        \/ Len(new_arg) < min_match_len)
    => LET lcp == Lcp(provisional_before, new_arg) IN
       /\ committed = committed_before
       /\ result.backspaces = Len(provisional_before) - lcp
       /\ result.new_text = SubSeq(new_arg, lcp + 1, Len(new_arg))
       /\ result.some <=> (Len(provisional_before) > lcp \/ Len(new_arg) > lcp)

C7_Witness ==
    /\ Updated
    /\ Len(new_arg) < min_match_len
    /\ new_arg # <<>>
    /\ ~IsPrefix(new_arg, provisional_before) /\ ~IsPrefix(provisional_before, new_arg)
    /\ \E p \in 1..Len(provisional_before) : OccursAt(provisional_before, new_arg, p)
    /\ result.backspaces = Len(provisional_before)

\* C8: update(s) called twice in a row returns None the second time and
\* leaves committed and provisional as they were.
C8_SecondUpdateIsNone ==
    [][(/\ Updated
        /\ calls' = calls + 1
        /\ last_call'.op = "update"
        /\ last_call'.new_transcript = new_arg)
       => (/\ result' = None
           /\ committed' = committed
           /\ provisional' = provisional)]_vars

C8_Witness ==
    /\ Updated
    /\ new_arg # <<>>
    /\ provisional_before = new_arg
    /\ committed_before # <<>>
    /\ result = None

Polled == last_command.op = "poll" /\ last_command.recording
snapshot == last_command.snapshot
committed_text_before == last_command.committed
provisional_text_before == last_command.provisional

\* C9: a poll made while recording answers with the (bs, appended) that
\* TextTracker::update returns for the transcript it read (0 and the empty
\* text for None), and leaves the committed and provisional text update
\* leaves.
C9_PollIsTrackerUpdate ==
    Polled =>
        LET u == TextTracker_update_result(committed_text_before,
                                           provisional_text_before, snapshot)
        IN  /\ response = Response("RECORDING", u.result.backspaces, u.result.new_text)
            /\ committed_text = u.committed
            /\ provisional_text = u.provisional

\* C10: on a total refresh (the transcript read and provisional are not
\* empty, neither is a prefix of the other, and the leading key of the
\* transcript occurs nowhere in provisional) poll commits nothing and
\* backspaces the stale provisional: the client's text holds the new
\* transcript in place of the old provisional.
C10_PollRefreshIsRevision ==
    (/\ Polled
     /\ snapshot # <<>> /\ provisional_text_before # <<>>
     /\ ~IsPrefix(snapshot, provisional_text_before)
     /\ ~IsPrefix(provisional_text_before, snapshot)
     /\ Len(snapshot) >= min_match_len
     /\ ~\E p \in 0..Len(provisional_text_before) :
            OccursAt(provisional_text_before, SubSeq(snapshot, 1, poll_min_key_len), p))
    => /\ committed_text = committed_text_before
       /\ response.bs = Len(provisional_text_before)
                            - Lcp(provisional_text_before, snapshot)
       /\ ApplyEdit(committed_text_before \o provisional_text_before,
                    Some(response.bs, response.appended))
              = committed_text_before \o snapshot

\* What the client shows after the response of the last command, having
\* shown the committed and provisional text of before it.
ClientText ==
    ApplyEdit(committed_text_before \o provisional_text_before,
              Some(response.bs, response.appended))

CommandStep == last_command' # last_command \/ response' # response

AllTerminated == \A w \in DOMAIN worker : Terminated(w)

\* C12: a poll made while the recording flag is false answers IDLE: and
\* leaves the committed text, the provisional text and the stored
\* transcript as they were.
C12_IdlePollChangesNothing ==
    [][(polls' # polls /\ ~recording)
       => (/\ response' = Reply("IDLE:")
           /\ UNCHANGED <<committed_text, provisional_text, last_transcript,
                          buffer, recording>>)]_vars

C12_Witness ==
    /\ last_command.op = "poll"
    /\ ~last_command.recording
    /\ response = Reply("IDLE:")
    /\ last_command.snapshot # <<>>
    /\ provisional_text # <<>>
    /\ provisional_text # last_command.snapshot

\* C13: start_recording while recording answers ERROR already recording
\* and stop_recording while idle answers ERROR not recording; either leaves
\* the flag, the workers, the handle, the transcriber and the tracker's
\* text as they were.
C13_WrongStateRejected ==
    [][(/\ CommandStep
        /\ \/ last_command'.op = "start" /\ last_command'.recording
           \/ last_command'.op = "stop" /\ ~last_command'.recording)
       => (/\ response' = Reply(IF last_command'.op = "start"
                                THEN "ERROR already recording"
                                ELSE "ERROR not recording")
           /\ UNCHANGED <<recording, worker, worker_thread, controller, buffer,
                          last_transcript, committed_text, provisional_text>>)]_vars

C13_Witness ==
    /\ last_command.op = "start"
    /\ last_command.recording
    /\ response = Reply("ERROR already recording")
    /\ recording
    /\ last_transcript # <<>>
    /\ provisional_text # <<>>
    /\ Len(worker) = 1

StopReturned ==
    /\ last_command.op = "stop"
    /\ last_command.recording
    /\ controller = "ready"

\* C14: once stop_recording has returned OK the flag is false, the session's
\* worker has terminated, the handle slot is empty, and no worker pushes
\* audio or stores a transcript until the next command.
C14_StopLeavesNothingRunning ==
    /\ [](StopReturned => /\ response = Reply("OK")
                          /\ ~recording
                          /\ worker_thread = 0
                          /\ AllTerminated)
    /\ [][(StopReturned /\ StopReturned')
          => UNCHANGED <<buffer, last_transcript>>]_vars

C14_Witness ==
    /\ StopReturned
    /\ response = Reply("OK")
    /\ worker = <<"exited">>
    /\ buffer # <<>>
    /\ last_transcript # <<>>

\* The workers inside the thread closure, from its spawn to its return.
Running == {w \in DOMAIN worker : ~Terminated(w)}

\* C15: at most one worker is running at any time, whatever the commands and
\* however the captures fail.
C15_AtMostOneWorker == Cardinality(Running) <= 1

C15_Witness ==
    /\ Len(worker) = 2
    /\ Terminated(1)
    /\ worker[2] \in {"loop", "drain", "tick"}
    /\ recording

\* The session's worker ended on a failed capture and no STOP is joining or
\* has joined it (a STOP that swapped the flag before the failure returns OK).
FailedSession ==
    /\ worker_thread # 0
    /\ WorkerAt(worker_thread, "failed")
    /\ controller = "ready"

\* C16: a worker whose capture fails clears the recording flag and returns
\* having pushed no audio and stored no transcript; from then on a poll
\* answers IDLE:, a STOP answers ERROR not recording and a START is
\* accepted.
C16_CaptureFailureEndsSession ==
    /\ [][\A w \in DOMAIN worker :
             (worker[w] # "failed" /\ worker'[w] = "failed") => ~recording']_vars
    /\ [](FailedSession => /\ ~recording
                           /\ AllTerminated
                           /\ buffer = <<>>
                           /\ last_transcript = <<>>)
    /\ [][(FailedSession /\ vars' # vars)
          => \/ /\ last_command'.op = "poll"
                /\ response' = Reply("IDLE:")
                /\ FailedSession'
             \/ /\ last_command'.op = "stop"
                /\ response' = Reply("ERROR not recording")
                /\ FailedSession'
             \/ /\ last_command'.op = "start"
                /\ response' = Reply("OK")
                /\ recording'
                /\ worker' = Append(worker, "spawned")
                /\ worker_thread' = Len(worker')]_vars

C16_Witness ==
    /\ FailedSession
    /\ last_command.op = "poll"
    /\ response = Reply("IDLE:")
    /\ Len(worker) = 2

(***************************************************************************)
(* The protocol of the control socket, as its table of commands has it.    *)
(***************************************************************************)
POLL == <<80, 79, 76, 76>>
\* "IDLE:", "RECORDING:" and "ERROR "
IDLE_ == <<73, 68, 76, 69, 58>>
RECORDING_ == <<82, 69, 67, 79, 82, 68, 73, 78, 71, 58>>
ERROR_ == <<69, 82, 82, 79, 82, 32>>
\* "ERROR already recording" and "ERROR not recording"
ERROR_already_recording ==
    ERROR_ \o <<97, 108, 114, 101, 97, 100, 121, 32, 114, 101, 99, 111, 114, 100, 105, 110, 103>>
ERROR_not_recording ==
    ERROR_ \o <<110, 111, 116, 32, 114, 101, 99, 111, 114, 100, 105, 110, 103>>

\* The command word of a line, letter case aside.
Word(line) == to_uppercase(parts0(Trim(line)))

\* Whether a session is on after the first i commands handled: a START
\* leaves one on, a STOP leaves none.
RECURSIVE SessionAfter(_)
SessionAfter(i) ==
    IF i = 0 THEN FALSE
    ELSE IF Word(handled[i].cmd) = START THEN TRUE
    ELSE IF Word(handled[i].cmd) = STOP THEN FALSE
    ELSE SessionAfter(i - 1)

\* C17: on the socket a START is answered OK when no session is on and
\* ERROR already recording when one is, a STOP OK when one is on and ERROR
\* not recording when none is; so no two STARTs in a row are both answered
\* OK.
C17_SocketStartStop ==
    \A i \in DOMAIN handled :
        /\ Word(handled[i].cmd) = START
               => handled[i].response = IF SessionAfter(i - 1)
                                        THEN ERROR_already_recording ELSE OK
        /\ Word(handled[i].cmd) = STOP
               => handled[i].response = IF SessionAfter(i - 1)
                                        THEN OK ELSE ERROR_not_recording

\* C18: on the socket a POLL is answered IDLE: or RECORDING:<bs>:<appended>,
\* never with an ERROR.
C18_SocketPoll ==
    \A i \in DOMAIN handled :
        Word(handled[i].cmd) = POLL
            => \/ handled[i].response = IDLE_
               \/ IsPrefix(RECORDING_, handled[i].response)

\* C19: a SHUTDOWN in any letter case is answered OK, the daemon leaves its
\* loop, and no command is handled after it.
C19_SocketShutdown ==
    \A i \in DOMAIN handled :
        to_uppercase(handled[i].cmd) = SHUTDOWN
            => /\ handled[i].response = OK
               /\ ~running
               /\ i = Len(handled)

\* The line is none of the commands of the protocol.
Unknown(line) == Word(line) \notin {PING, START, STOP, POLL, SHUTDOWN}

\* C20: a whole line that is no command of the protocol, read from a client
\* that is still there, is answered with a line that starts with "ERROR ",
\* and the connection stays open.
C20_ErrorKeepsConnection ==
    (/\ last_read.kind \in {"command", "error"}
     /\ client = "connected"
     /\ parent_alive
     /\ last_read.line # <<>>
     /\ last_read.line[Len(last_read.line)] = 10
     /\ Unknown(last_read.line))
    => /\ last_read.delivered
       /\ IsPrefix(ERROR_, last_read.response)
       /\ responses # <<>>
       /\ responses[Len(responses)] = last_read.response
       /\ connection = "open"
       /\ running

\* C29: the aging point is a count of scalars, not of bytes: when update
\* ages, the scalars it moves into committed are the scalars of provisional
\* that precede the key it matched, multi-byte ones among them, and
\* committed followed by what is left of provisional is the text of before.
C29_AgingCountsScalars ==
    (Updated /\ Aged > 0) =>
        /\ \E k \in KeyLens(new_arg) :
               OccursAt(provisional_before, SubSeq(new_arg, 1, k), Aged)
        /\ committed = committed_before \o Take(provisional_before, Aged)
        /\ committed \o Skip(provisional_before, Aged)
               = committed_before \o provisional_before

C29_Witness ==
    /\ Updated
    /\ Aged > 0
    /\ ByteLen(Take(provisional_before, Aged)) > Aged
    /\ result.some

Transcribed == last_transcribe.op = "transcribe"
\* The text of the recognizer in the last transcribe, trimmed.
trimmed == Trim(last_transcribe.inference.text)

\* C22: transcribe on a non-empty buffer, the recognizer having answered,
\* returns Some(text) exactly when the trimmed text differs from the stored
\* transcript, and None otherwise; either way the transcript stored
\* afterwards, which current_transcript returns, is the trimmed text.
C22_SomeIffChanged ==
    (Transcribed /\ last_transcribe.samples # <<>> /\ last_transcribe.inference.ok)
    => /\ (last_transcribe.result.kind = "Some") <=> (trimmed # last_transcribe.last)
       /\ last_transcribe.result.kind \in {"Some", "None"}
       /\ last_transcribe.result.kind = "Some" => last_transcribe.result.text = trimmed
       /\ last_transcript = trimmed

C22_Witness ==
    /\ Transcribed
    /\ last_transcribe.samples # <<>>
    /\ last_transcribe.inference.ok
    /\ last_transcribe.inference.text # trimmed
    /\ last_transcribe.last = trimmed
    /\ trimmed # <<>>
    /\ last_transcribe.result.kind = "None"

\* C23: transcribe on an empty buffer returns None, does not run the
\* recognizer, and leaves the stored transcript as it was.
C23_EmptyBufferIsNone ==
    (Transcribed /\ last_transcribe.samples = <<>>)
    => /\ last_transcribe.result.kind = "None"
       /\ ~last_transcribe.result.invoked
       /\ last_transcript = last_transcribe.last

C23_Witness ==
    /\ Transcribed
    /\ last_transcribe.samples = <<>>
    /\ last_transcribe.inference.ok
    /\ trimmed # last_transcribe.last
    /\ last_transcribe.result.kind = "None"
    /\ transcriber_calls > 1

\* The last n elements of s.
LastN(s, n) == SubSeq(s, Len(s) - n + 1, Len(s))

\* C25: after any pushes, of chunks of any length, the buffer holds at most
\* Capacity samples, and they are the last min(total, Capacity) samples of
\* all that was pushed since the last clear, in order; a clear leaves the
\* buffer empty.
C25_BufferIsSuffix ==
    /\ Len(buffer) <= Capacity
    /\ buffer = LastN(pushed, Min(Len(pushed), Capacity))
    /\ last_transcribe.op = "reset" => buffer = <<>>

C25_Witness ==
    /\ last_transcribe.op = "push_audio"
    /\ Len(last_transcribe.samples) = 1
    /\ Len(pushed) > Capacity + Len(last_transcribe.samples)
    /\ Len(buffer) = Capacity

\* C26: the output of resample has ceil(|xs| * ratio) samples, for every
\* input and every ratio WHISPER_SAMPLE_RATE / sample_rate, those within
\* 0.001 of 1 and the empty input included.
C26_ResampleLength ==
    last_callback.called
    => Len(last_callback.resampled)
           = CeilDiv(Len(last_callback.mono) * WHISPER_SAMPLE_RATE, sample_rate)

RECURSIVE Flatten(_)
Flatten(frames) == IF frames = <<>> THEN <<>> ELSE Head(frames) \o Flatten(Tail(frames))

\* C28: frames travel from the callback to the rolling buffer in order and
\* without duplication: what was sent is what was received followed by what
\* is still in the channel; the buffer is the last min(total, W) samples of
\* what was received; and when the drain has ended, every frame sent before
\* its last try_recv began has been received; and what a transcribe copied
\* is the last min(k, W) of the first k samples received, for some k.
C28_FramesInOrder ==
    /\ enqueued = dequeued \o Flatten(channel)
    /\ buffer = LastN(dequeued, Min(Len(dequeued), Capacity))
    /\ capture = "tick" => Len(dequeued) >= mark
    /\ \E k \in 0..Len(dequeued) :
          heard = LastN(SubSeq(dequeued, 1, k), Min(k, Capacity))

\* A transcribe has copied a buffer that had wrapped, filled from two frames.
C28_Witness ==
    /\ callbacks = MaxCallbacks
    /\ channel = <<>>
    /\ Len(dequeued) > Capacity
    /\ heard = buffer
    /\ heard # <<>>
    /\ capture = "loop"

\* C21: the appended text of a poll's response never contains a newline,
\* also when the transcript the poll read contains one.
C21_NoNewlineInResponse ==
    Polled => \A i \in DOMAIN response.appended : response.appended[i] # 10

\* The worker has called transcribe in this step.
WorkerTranscribes == last_transcribe' # last_transcribe /\ last_transcribe'.op = "transcribe"

\* C24: a transcribe whose inference fails returns an error and leaves the
\* stored transcript as it was; the worker that called it goes on to the
\* next round of its loop, and the recording flag is as it was.
C24_InferenceErrorIsPerCall ==
    [][(WorkerTranscribes /\ last_transcribe'.samples # <<>>
                          /\ ~last_transcribe'.inference.ok)
       => /\ last_transcribe'.result.kind = "Err"
          /\ last_transcribe'.result.invoked
          /\ last_transcript' = last_transcript
          /\ recording' = recording
          /\ \E w \in DOMAIN worker : worker[w] = "tick" /\ worker'[w] = "loop"]_vars

\* An inference has failed with a transcript stored; the worker is in its
\* loop with the flag set, and a poll still reads the transcript.
C24_Witness ==
    /\ Transcribed
    /\ last_transcribe.samples # <<>>
    /\ ~last_transcribe.inference.ok
    /\ last_transcribe.last # <<>>
    /\ last_transcript = last_transcribe.last
    /\ recording
    /\ worker[worker_thread] = "loop"
    /\ last_command.op = "poll"
    /\ last_command.snapshot = last_transcript

\* C27: once stop_recording has cleared the recording flag and waits for
\* the worker, the worker eventually finishes and STOP returns OK, whatever
\* frames the capture delivers meanwhile.
C27_StopEventuallyReturns ==
    (controller = "joining")
        ~> (controller = "ready" /\ response = Reply("OK") /\ AllTerminated)

\* The worker of the last START has not yet been in its loop.
BeforeLoop == Len(worker) > 0 /\ worker[Len(worker)] \in {"spawned", "created", "failed"}

\* C30: every worker but the one of the last START has finished, so none of
\* an earlier session clears the flag, pushes audio or stores a transcript;
\* and until the worker of the last START is in its loop the buffer, the
\* stored transcript and the committed and provisional text are empty, and
\* a poll of the session answers with no backspaces and no text.
C30_SessionsIsolated ==
    /\ \A w \in DOMAIN worker : w < Len(worker) => Terminated(w)
    /\ BeforeLoop => /\ buffer = <<>>
                     /\ last_transcript = <<>>
                     /\ committed_text = <<>>
                     /\ provisional_text = <<>>
                     /\ Polled => response = Response("RECORDING", 0, <<>>)

\* A second START has reset a session that had ended with a transcript and
\* provisional text, and its worker is not yet in its loop.
C30_Witness ==
    /\ Len(worker) = 2
    /\ worker[1] = "exited"
    /\ BeforeLoop
    /\ recording
    /\ last_command.op = "start"
    /\ last_command.snapshot # <<>>
    /\ last_command.provisional # <<>>

\* C31: while the client is connected, the commands passed to the handler
\* are, in order and each once, the lines the client has written (trimmed
\* as read_command trims them), however the bytes of a line were split
\* across reads, and each has been answered with one response line.
C31_LinesHandledIntact ==
    client = "connected"
    => /\ Len(handled) <= Len(written)
       /\ \A i \in DOMAIN handled :
             /\ handled[i].cmd = Trim(written[i])
             /\ handled[i].delivered
       /\ Len(responses) = Len(handled)
       /\ \A i \in DOMAIN responses : responses[i] = handled[i].response

====
